---- MODULE Spec2Model ----
(***************************************************************************)
(* A model of crates/cli-support/src/lib.rs of wasm-bindgen: the Bindgen   *)
(* builder and its generate pipeline, extract_programs, the Node loader    *)
(* shim of generate_node_wasm_import and reset_indentation.                *)
(*                                                                         *)
(* A text (a Rust str, a path's file name) is a sequence of atoms.  An     *)
(* atom is a one-character string, or a word: a fragment of several        *)
(* characters that holds no line break, neither starts nor ends with       *)
(* white space, and neither starts nor ends with a character               *)
(* reset_indentation tests for.  So the first and last atom of a line      *)
(* decide starts_with and ends_with exactly as its first and last          *)
(* character do.                                                           *)
(***************************************************************************)
EXTENDS Integers, Sequences, FiniteSets, TLC

VARIABLES
    input,                          \* Bindgen.input
    nodejs,                         \* Bindgen.nodejs
    nodejs_experimental_modules,    \* Bindgen.nodejs_experimental_modules
    typescript,                     \* Bindgen.typescript
    run,                            \* what the most recent call of generate did
    ex,                             \* one call of extract_programs
    fmt,                            \* calls of reset_indentation
    sh                              \* calls of generate_node_wasm_import

vars == <<input, nodejs, nodejs_experimental_modules, typescript, run, ex, fmt, sh>>

(***************************************************************************)
(* Bounds of the model.                                                    *)
(***************************************************************************)
MaxLen == 4         \* characters of a text handed to reset_indentation
MaxRecords == 2     \* records in one metadata payload
MaxSections == 3    \* sections of a module
MaxImports == 3     \* entries of an import section
MaxGenerate == 2    \* calls of generate on one Bindgen

\* All sequences over S of length at most n.
SeqUpTo(S, n) == UNION {[1..k -> S] : k \in 0..n}

(***************************************************************************)
(* Source Formatter: reset_indentation.                                    *)
(***************************************************************************)
\* char::is_whitespace, for the characters of the model ("\n" never occurs
\* inside a line).
is_whitespace(c) == c \in {" ", "\t", "\r", "\n"}

\* The per-line map of str::lines: one trailing "\r" is dropped.
strip_cr(line) ==
    IF Len(line) > 0 /\ line[Len(line)] = "\r"
    THEN SubSeq(line, 1, Len(line) - 1)
    ELSE line

Min(S) == CHOOSE i \in S : \A j \in S : i <= j

Max(S) == CHOOSE i \in S : \A j \in S : i >= j

\* str::lines from position p of the text on: a line ends at the next "\n",
\* its terminator; text after the last "\n" is a line of its own unless it
\* is empty.
RECURSIVE lines_from(_, _)
lines_from(s, p) ==
    IF p > Len(s)
    THEN <<>>
    ELSE LET ends == {i \in p..Len(s) : s[i] = "\n"}
             e == IF ends = {} THEN Len(s) + 1 ELSE Min(ends)
         IN  <<strip_cr(SubSeq(s, p, e - 1))>> \o lines_from(s, e + 1)

lines(s) == lines_from(s, 1)

\* str::trim_start
trim_start(l) ==
    LET keep == {i \in 1..Len(l) : ~is_whitespace(l[i])}
    IN  IF keep = {} THEN <<>> ELSE SubSeq(l, Min(keep), Len(l))

\* str::trim_end
trim_end(l) ==
    LET keep == {i \in 1..Len(l) : ~is_whitespace(l[i])}
    IN  IF keep = {} THEN <<>> ELSE SubSeq(l, 1, Max(keep))

\* A bug: only the end of the line is trimmed.
trim_EndOnly(l) == trim_end(l)

\* str::trim
trim(l) == trim_end(trim_start(l))

starts_with(l, c) == l # <<>> /\ l[1] = c

ends_with(l, c) == l # <<>> /\ l[Len(l)] = c

\* u32::saturating_sub
saturating_sub(a, b) == IF a >= b THEN a - b ELSE 0

\* A bug: a line that starts with "*" and ends with "}" closes a block too.
closes_block_NoCommentGuard(line) ==
    starts_with(line, "}") \/ ends_with(line, "}")

\* The condition of line 398: the line closes a block.
closes_block(line) ==
    starts_with(line, "}") \/ (ends_with(line, "}") /\ ~starts_with(line, "*"))

\* Lines 401-405.
extra_of(line) ==
    IF starts_with(line, ":") \/ starts_with(line, "?") THEN 1 ELSE 0

\* Lines 407-409: `n` times push_str("    ").
RECURSIVE push_indent(_, _)
push_indent(dst, n) ==
    IF n = 0 THEN dst ELSE push_indent(dst \o <<" ", " ", " ", " ">>, n - 1)

\* The loop of lines 396-416 from line i on, with the indent and the
\* destination so far.
RECURSIVE reset_from(_, _, _, _)
reset_from(ls, i, indent, dst) ==
    IF i > Len(ls)
    THEN dst
    ELSE LET line == trim(ls[i])
             indent1 == IF closes_block(line)
                        THEN saturating_sub(indent, 1)
                        ELSE indent
             dst1 == IF line # <<>>
                     THEN push_indent(dst, indent1 + extra_of(line)) \o line
                     ELSE dst
             dst2 == Append(dst1, "\n")
             indent2 == IF ends_with(line, "{") THEN indent1 + 1 ELSE indent1
         IN  reset_from(ls, i + 1, indent2, dst2)

reset_indentation(s) == reset_from(lines(s), 1, 0, <<>>)

(***************************************************************************)
(* Modules.  A module is its list of sections (parity_wasm's Module); a    *)
(* section is a record: kind is "Custom", "Import", "Export" or "Code",    *)
(* name and payload are those of a custom section, entries the module      *)
(* names of an import section's entries or the field names of an export    *)
(* section's.                                                              *)
(***************************************************************************)
Custom(name, payload) ==
    [kind |-> "Custom", name |-> name, payload |-> payload, entries |-> <<>>]

Import(entries) ==
    [kind |-> "Import", name |-> "", payload |-> <<>>, entries |-> entries]

Export(entries) ==
    [kind |-> "Export", name |-> "", payload |-> <<>>, entries |-> entries]

Code == [kind |-> "Code", name |-> "", payload |-> <<>>, entries |-> <<>>]

\* Module::new(Vec::new())
blank_module == <<>>

\* The name extract_programs looks for (line 332).
RESERVED == "__wasm_bindgen_unstable"

(***************************************************************************)
(* Metadata records.  The body of a record is JSON that serde_json decodes *)
(* into the structs of the shared crate.  The model keeps of a body what   *)
(* the two decoders make of it, in two bytes: the first is the record's    *)
(* schema_version, 0 when the body does not decode as ProgramOnlySchema;   *)
(* the second is 0 when the body does not decode as a whole Program.       *)
(***************************************************************************)
\* shared::SCHEMA_VERSION, as a stamp of the model.
SCHEMA_VERSION == 1

\* serde_json::from_slice::<shared::ProgramOnlySchema> (line 346)
from_slice_ProgramOnlySchema(a) ==
    IF Len(a) = 0 \/ a[1] = 0
    THEN [ok |-> FALSE, schema_version |-> 0]
    ELSE [ok |-> TRUE, schema_version |-> a[1]]

\* serde_json::from_slice::<shared::Program> (line 378)
from_slice_Program(a) ==
    IF Len(a) < 2 \/ a[1] = 0 \/ a[2] = 0
    THEN [ok |-> FALSE, program |-> <<>>]
    ELSE [ok |-> TRUE, program |-> a]

\* A bug: the schema version is not compared.
version_differs_Unchecked(p) == FALSE

\* The comparison of line 350.
version_differs(p) == p.schema_version # SCHEMA_VERSION

\* Lines 339-342: the declared length, little endian.
declared_len(payload) ==
    payload[1] + payload[2] * 256 + payload[3] * 65536 + payload[4] * 16777216

Failed(status, kind) == [status |-> status, kind |-> kind, programs |-> <<>>]

\* The loop of lines 338-383 over one payload; ret holds the programs so
\* far.  payload[1], payload[2] or payload[3] of a payload of fewer than 4
\* bytes and split_at beyond the end of the slice panic.
RECURSIVE decode_payload(_, _)
decode_payload(payload, ret) ==
    IF Len(payload) = 0
    THEN [status |-> "ok", kind |-> "none", programs |-> ret]
    ELSE IF Len(payload) < 4
    THEN Failed("panic", "index")
    ELSE LET len == declared_len(payload)
             rest == SubSeq(payload, 5, Len(payload))
         IN  IF len > Len(rest)
             THEN Failed("panic", "split_at")
             ELSE LET a == SubSeq(rest, 1, len)
                      b == SubSeq(rest, len + 1, Len(rest))
                      p == from_slice_ProgramOnlySchema(a)
                      q == from_slice_Program(a)
                  IN  IF ~p.ok THEN Failed("err", "decode")
                      ELSE IF version_differs(p) THEN Failed("err", "version")
                      ELSE IF ~q.ok THEN Failed("err", "decode")
                      ELSE decode_payload(b, Append(ret, q.program))

\* The loop of lines 327-384 from section i on.
RECURSIVE scan_sections(_, _, _, _)
scan_sections(sections, i, ret, to_remove) ==
    IF i > Len(sections)
    THEN [status |-> "ok", kind |-> "none", programs |-> ret,
          to_remove |-> to_remove]
    ELSE IF sections[i].kind # "Custom" \/ sections[i].name # RESERVED
    THEN scan_sections(sections, i + 1, ret, to_remove)
    ELSE LET d == decode_payload(sections[i].payload, ret)
         IN  IF d.status # "ok"
             THEN [status |-> d.status, kind |-> d.kind, programs |-> <<>>,
                   to_remove |-> <<>>]
             ELSE scan_sections(sections, i + 1, d.programs,
                                Append(to_remove, i))

\* Vec::remove
remove_at(v, i) == SubSeq(v, 1, i - 1) \o SubSeq(v, i + 1, Len(v))

\* Lines 386-388 from the k-th index of to_remove down to the first.
RECURSIVE remove_rev(_, _, _)
remove_rev(sections, to_remove, k) ==
    IF k = 0
    THEN sections
    ELSE remove_rev(remove_at(sections, to_remove[k]), to_remove, k - 1)

\* A bug: the indices are removed lowest first, so that each removal shifts
\* the sections the later indices mean.
RECURSIVE remove_fwd(_, _, _)
remove_fwd(sections, to_remove, k) ==
    IF k > Len(to_remove)
    THEN sections
    ELSE IF to_remove[k] > Len(sections)
    THEN remove_fwd(sections, to_remove, k + 1)
    ELSE remove_fwd(remove_at(sections, to_remove[k]), to_remove, k + 1)

remove_sections_Forward(sections, to_remove) ==
    remove_fwd(sections, to_remove, 1)

\* Lines 386-388.
remove_sections(sections, to_remove) ==
    remove_rev(sections, to_remove, Len(to_remove))

\* extract_programs: the result, and the module's sections after the call
\* (left alone when the call fails: the removal is the last thing it does).
extract_programs(module) ==
    LET r == scan_sections(module, 1, <<>>, <<>>)
    IN  [status |-> r.status, kind |-> r.kind, programs |-> r.programs,
         sections |-> IF r.status = "ok"
                      THEN remove_sections(module, r.to_remove)
                      ELSE module]

(***************************************************************************)
(* Inputs of the model: payloads, sections, modules.                       *)
(***************************************************************************)
\* u32 little endian, as the macro writes the length prefix.
le32(n) == <<n % 256, (n \div 256) % 256, (n \div 65536) % 256,
             (n \div 16777216) % 256>>

Record(body) == le32(Len(body)) \o body

\* Bodies: a good one, one of another schema version (whose content decodes
\* or not), one that is no JSON, one of the right version that is no Program.
Bodies == {<<SCHEMA_VERSION, 1>>, <<SCHEMA_VERSION + 1, 1>>,
           <<SCHEMA_VERSION + 1, 0>>, <<0, 0>>, <<SCHEMA_VERSION, 0>>}

RECURSIVE Concat(_)
Concat(ss) == IF ss = <<>> THEN <<>> ELSE Head(ss) \o Concat(Tail(ss))

\* Payloads of whole records.
WholePayloads(n) ==
    {Concat([i \in 1..Len(bs) |-> Record(bs[i])]) : bs \in SeqUpTo(Bodies, n)}

\* Tails that are no whole record: a length prefix cut short, and a record
\* that declares more bytes than follow.
BrokenTails == {<<2, 0>>, le32(3) \o <<SCHEMA_VERSION, 1>>}

Payloads(n) ==
    WholePayloads(n) \cup
    {p \o t : p \in WholePayloads(n - 1), t \in BrokenTails}

\* Modules of one metadata section, with every payload.
PayloadModules == {<<Custom(RESERVED, p)>> : p \in Payloads(MaxRecords)}

\* Modules of several sections, with a few payloads.
FewSections ==
    {Custom(RESERVED, <<>>),
     Custom(RESERVED, Record(<<SCHEMA_VERSION, 1>>)),
     Custom(RESERVED, Record(<<SCHEMA_VERSION + 1, 1>>)),
     Custom("name", Record(<<SCHEMA_VERSION + 1, 1>>)),
     Import(<<"env">>),
     Code}

SectionModules == SeqUpTo(FewSections, MaxSections)

ExtractInputs == PayloadModules \cup SectionModules

(***************************************************************************)
(* One call of extract_programs.                                           *)
(***************************************************************************)
ExIdle == [pc |-> "idle", module |-> <<>>, out |-> extract_programs(<<>>)]

InitEx ==
    ex \in {[pc |-> "start", module |-> m, out |-> extract_programs(<<>>)] :
            m \in ExtractInputs}

Extract ==
    /\ ex.pc = "start"
    /\ ex' = [ex EXCEPT !.pc = "done", !.out = extract_programs(ex.module)]
    /\ UNCHANGED <<input, nodejs, nodejs_experimental_modules, typescript,
                   run, fmt, sh>>

(***************************************************************************)
(* Paths.  A file name is a text in which "." is an atom of its own.       *)
(***************************************************************************)
\* The index of the last "." of a file name, 0 when it has none.
RECURSIVE last_dot(_, _)
last_dot(f, i) == IF i = 0 \/ f[i] = "." THEN i ELSE last_dot(f, i - 1)

\* Path::file_stem of a file name that is not "..": the name when it has no
\* "." or only a leading one, else what comes before its last ".".
file_stem(f) ==
    LET d == last_dot(f, Len(f))
    IN  IF d <= 1 THEN f ELSE SubSeq(f, 1, d - 1)

\* Path::with_extension on the file name of a path, for a non-empty
\* extension: the file stem, ".", the extension.
with_extension(f, extension) == file_stem(f) \o <<".">> \o extension

(***************************************************************************)
(* Deployment Shim Builder: generate_node_wasm_import.                     *)
(***************************************************************************)
\* Bytes of the characters that the names of the model are made of.
CharCode == "a" :> 97 @@ "b" :> 98 @@ "e" :> 101 @@ "n" :> 110 @@ "v" :> 118

\* The order of str: by bytes, a proper prefix first.
RECURSIVE str_less(_, _)
str_less(x, y) ==
    IF y = <<>> THEN FALSE
    ELSE IF x = <<>> THEN TRUE
    ELSE IF x[1] = y[1] THEN str_less(Tail(x), Tail(y))
    ELSE CharCode[x[1]] < CharCode[y[1]]

\* A bug: the names are collected in a Vec, as they come.
btree_insert_Vec(set, x) == Append(set, x)

\* BTreeSet::insert, the set held as the sequence its iterator yields.
RECURSIVE btree_insert(_, _)
btree_insert(set, x) ==
    IF set = <<>> THEN <<x>>
    ELSE IF x = Head(set) THEN set
    ELSE IF str_less(x, Head(set)) THEN <<x>> \o set
    ELSE <<Head(set)>> \o btree_insert(Tail(set), x)

\* Module::import_section, Module::export_section: the first section of the
\* kind, if any.
RECURSIVE find_section(_, _, _)
find_section(m, kind, i) ==
    IF i > Len(m) THEN [some |-> FALSE, entries |-> <<>>]
    ELSE IF m[i].kind = kind THEN [some |-> TRUE, entries |-> m[i].entries]
    ELSE find_section(m, kind, i + 1)

import_section(m) == find_section(m, "Import", 1)

export_section(m) == find_section(m, "Export", 1)

\* Lines 249-254.
RECURSIVE collect_imports(_, _, _)
collect_imports(entries, i, imports) ==
    IF i > Len(entries) THEN imports
    ELSE collect_imports(entries, i + 1, btree_insert(imports, entries[i]))

imports_of(m) ==
    IF import_section(m).some
    THEN collect_imports(import_section(m).entries, 1, <<>>)
    ELSE <<>>

Spaces(n) == [k \in 1..n |-> " "]

\* Lines 259-261; i counts from 0.
RECURSIVE esm_import_lines(_, _)
esm_import_lines(imports, k) ==
    IF k > Len(imports) THEN <<>>
    ELSE <<"import * as import", ToString(k - 1), " ", "from '">>
         \o imports[k] \o <<"';", "\n">>
         \o esm_import_lines(imports, k + 1)

\* Lines 264-278.
esm_prelude(file_name) ==
    <<"\n">>
    \o Spaces(16) \o <<"import * as path from 'path';", "\n">>
    \o Spaces(16) \o <<"import * as fs from 'fs';", "\n">>
    \o Spaces(16) \o <<"import * as url from 'url';", "\n">>
    \o Spaces(16) \o <<"import * as process from 'process';", "\n">>
    \o <<"\n">>
    \o Spaces(16)
    \o <<"let file = path.dirname(url.parse(import.meta.url).pathname);", "\n">>
    \o Spaces(16) \o <<"if (process.platform === 'win32')", " ", "{", "\n">>
    \o Spaces(20) \o <<"file = file.substring(1);", "\n">>
    \o Spaces(16) \o <<"}", "\n">>
    \o Spaces(16) \o <<"const bytes = fs.readFileSync(path.join(file, '">>
    \o file_name \o <<"'));", "\n">>
    \o Spaces(12)

\* Lines 280-286.
cjs_prelude(file_name) ==
    <<"\n">>
    \o Spaces(16) \o <<"const path = require('path').join(__dirname, '">>
    \o file_name \o <<"');", "\n">>
    \o Spaces(16) \o <<"const bytes = require('fs').readFileSync(path);", "\n">>
    \o Spaces(12)

\* A bug: the classic shim takes the experimental form of the line.
import_line_AlwaysEsm(esm, k, module) ==
    <<"imports['">> \o module \o <<"'] = import", ToString(k - 1), ";", "\n">>

\* Lines 290-294, for the k-th name; i = k - 1.
import_line(esm, k, module) ==
    IF esm
    THEN <<"imports['">> \o module
         \o <<"'] = import", ToString(k - 1), ";", "\n">>
    ELSE <<"imports['">> \o module \o <<"'] = require('">> \o module
         \o <<"');", "\n">>

\* The loop of lines 289-295.
RECURSIVE import_lines(_, _, _)
import_lines(esm, imports, k) ==
    IF k > Len(imports) THEN <<>>
    ELSE import_line(esm, k, imports[k]) \o import_lines(esm, imports, k + 1)

\* Lines 297-302.
instantiate_lines ==
    <<"\n">>
    \o Spaces(16)
    \o <<"const wasmModule = new WebAssembly.Module(bytes);", "\n">>
    \o Spaces(16)
    \o <<"const wasmInstance = new WebAssembly.Instance(wasmModule, imports);",
         "\n">>
    \o Spaces(12)

\* Lines 306-312.
RECURSIVE export_lines(_, _)
export_lines(entries, k) ==
    IF k > Len(entries) THEN <<>>
    ELSE <<"export const", " ">> \o entries[k]
         \o <<" ", "= wasmInstance.exports.">> \o entries[k] \o <<";", "\n">>
         \o export_lines(entries, k + 1)

\* generate_node_wasm_import(m, path) under the configuration esm
\* (self.nodejs_experimental_modules); file_name is path.file_name().
generate_node_wasm_import(esm, m, file_name) ==
    LET imports == imports_of(m)
        shim ==
            (IF esm
             THEN esm_import_lines(imports, 1) \o esm_prelude(file_name)
             ELSE cjs_prelude(file_name))
            \o <<"let imports = {};", "\n">>
            \o import_lines(esm, imports, 1)
            \o instantiate_lines
            \o (IF esm
                THEN (IF export_section(m).some
                      THEN export_lines(export_section(m).entries, 1)
                      ELSE <<>>)
                ELSE <<"module.exports = wasmInstance.exports;", "\n">>)
    IN  reset_indentation(shim)

(***************************************************************************)
(* Calls of generate_node_wasm_import on two modules whose import sections *)
(* list the same set of names.                                             *)
(***************************************************************************)
ImportNames == {<<"a">>, <<"b">>, <<"e", "n", "v">>}

ExportNames == {<<"f">>}

Range(s) == {s[i] : i \in 1..Len(s)}

\* A module of an import section and an export section, each left out when
\* it would have no entry.
ShimModule(imps, exps) ==
    (IF imps = <<>> THEN <<>> ELSE <<Import(imps)>>)
    \o (IF exps = <<>> THEN <<>> ELSE <<Export(exps)>>)

BgWasm == <<"a", "_bg", ".", "wasm">>

ShIdle == [pc |-> "idle", esm |-> FALSE, m1 |-> <<>>, m2 |-> <<>>,
           out1 |-> <<>>, out2 |-> <<>>]

\* Pairs of import lists that name the same set of modules.
SameNamePairs ==
    {p \in SeqUpTo(ImportNames, MaxImports) \X SeqUpTo(ImportNames, MaxImports) :
        Range(p[1]) = Range(p[2])}

InitSh ==
    sh \in {[pc |-> "start", esm |-> e, m1 |-> ShimModule(p[1], e1),
             m2 |-> ShimModule(p[2], e2), out1 |-> <<>>, out2 |-> <<>>] :
            e \in BOOLEAN, p \in SameNamePairs,
            e1 \in SeqUpTo(ExportNames, 1), e2 \in SeqUpTo(ExportNames, 1)}

BuildShims ==
    /\ sh.pc = "start"
    /\ sh' = [sh EXCEPT !.pc = "done",
                        !.out1 = generate_node_wasm_import(sh.esm, sh.m1, BgWasm),
                        !.out2 = generate_node_wasm_import(sh.esm, sh.m2, BgWasm)]
    /\ UNCHANGED <<input, nodejs, nodejs_experimental_modules, typescript,
                   run, ex, fmt>>

(***************************************************************************)
(* Calls of reset_indentation: on a text, then on its own output.          *)
(***************************************************************************)
MaxLines == 3       \* lines of a text put together from whole lines

Chars == {"a", " ", "\n", "\r", "{", "}", ":", "?", "*"}

LinePool == {<<"a", " ", "{">>, <<"b">>, <<" ", "b", " ">>, <<"}">>,
             <<"*", " ", "}">>, <<":", " ", "a">>, <<"?", "a">>, <<>>,
             <<"}", " ", "{">>}

\* The lines joined by "\n".
RECURSIVE join_lines(_)
join_lines(ls) ==
    IF ls = <<>> THEN <<>>
    ELSE IF Len(ls) = 1 THEN ls[1]
    ELSE ls[1] \o <<"\n">> \o join_lines(Tail(ls))

\* Every text of at most MaxLen characters, and the texts of at most
\* MaxLines lines of the pool, with and without a last line break.
Texts ==
    SeqUpTo(Chars, MaxLen)
    \cup {join_lines(ls) : ls \in SeqUpTo(LinePool, MaxLines)}
    \cup {join_lines(ls) \o <<"\n">> : ls \in SeqUpTo(LinePool, MaxLines)}

FmtIdle == [pc |-> "idle", s |-> <<>>, once |-> <<>>, twice |-> <<>>]

InitFmt ==
    fmt \in {[pc |-> "start", s |-> s, once |-> <<>>, twice |-> <<>>] :
             s \in Texts}

Format ==
    /\ fmt.pc = "start"
    /\ fmt' = [fmt EXCEPT !.pc = "once", !.once = reset_indentation(fmt.s)]
    /\ UNCHANGED <<input, nodejs, nodejs_experimental_modules, typescript,
                   run, ex, sh>>

Reformat ==
    /\ fmt.pc = "once"
    /\ fmt' = [fmt EXCEPT !.pc = "done", !.twice = reset_indentation(fmt.once)]
    /\ UNCHANGED <<input, nodejs, nodejs_experimental_modules, typescript,
                   run, ex, sh>>

(***************************************************************************)
(* Orchestrator: Bindgen and generate.                                     *)
(***************************************************************************)
\* A byte buffer, as parity_wasm::deserialize_buffer tells them apart: the
\* serialization of a module, or bytes that are no module.
NoBytes == [valid |-> FALSE, module |-> <<>>]

Serialized(m) == [valid |-> TRUE, module |-> m]

\* parity_wasm::deserialize_buffer::<Module>
deserialize_buffer(b) == [ok |-> b.valid, module |-> b.module]

\* enum Input (lines 41-46)
InputNone ==
    [tag |-> "None", file |-> <<>>, bytes |-> NoBytes, module |-> <<>>,
     name |-> <<>>]

InputPath(f) == [InputNone EXCEPT !.tag = "Path", !.file = f]

InputBytes(b, name) ==
    [InputNone EXCEPT !.tag = "Bytes", !.bytes = b, !.name = name]

InputModule(m, name) ==
    [InputNone EXCEPT !.tag = "Module", !.module = m, !.name = name]

\* The state of one run of _generate: result is "running", "ok", "err" or
\* "panic"; stage the step the run is in or ended in; log the steps begun,
\* in order; written the files written, in order; module and stem the
\* locals of _generate.
Start ==
    [result |-> "running", stage |-> "input", log |-> <<"input">>,
     written |-> <<>>, module |-> <<>>, stem |-> <<>>, resolved |-> FALSE]

Begin(st, step) == [st EXCEPT !.stage = step, !.log = Append(@, step)]

Bail(st) == [st EXCEPT !.result = "err"]

\* Lines 150-169: the match on self.input; read is what fs::read returns.
resolve_input(inp, read) ==
    CASE inp.tag = "None" -> Bail(Start)
      [] inp.tag = "Module" ->
            [Start EXCEPT !.module = inp.module, !.stem = inp.name,
                          !.resolved = TRUE]
      [] inp.tag = "Bytes" ->
            IF deserialize_buffer(inp.bytes).ok
            THEN [Start EXCEPT !.module = deserialize_buffer(inp.bytes).module,
                               !.stem = inp.name, !.resolved = TRUE]
            ELSE Bail(Start)
      [] inp.tag = "Path" ->
            IF read.ok /\ deserialize_buffer(read.bytes).ok
            THEN [Start EXCEPT !.module = deserialize_buffer(read.bytes).module,
                               !.stem = file_stem(inp.file), !.resolved = TRUE]
            ELSE Bail(Start)

\* A bug: the module is cloned, not taken.
input_after_Kept(inp) == inp

\* self.input after the match: mem::replace leaves a blank module in
\* Input::Module (lines 152-155); the other arms only borrow.
input_after(inp) ==
    IF inp.tag = "Module" THEN [inp EXCEPT !.module = blank_module] ELSE inp

\* Lines 170-171.
step_extract(st) ==
    IF st.result # "running" THEN st
    ELSE LET r == extract_programs(st.module)
         IN  IF r.status = "ok"
             THEN [Begin(st, "extract") EXCEPT !.module = r.sections]
             ELSE [Begin(st, "extract") EXCEPT !.result = r.status]

\* Line 186: wasm_interpreter::Interpreter::new.
step_interpreter(st) ==
    IF st.result # "running" THEN st ELSE Begin(st, "interpreter")

\* Lines 188-216: the records' generate and finalize, of the js module;
\* ok is whether they succeed.
step_bindings(st, ok) ==
    IF st.result # "running" THEN st
    ELSE IF ok THEN Begin(st, "bindings") ELSE Bail(Begin(st, "bindings"))

\* A bug: the result of fs::write is dropped and the run goes on.
try_write_Unchecked(st, step, ok, entry) ==
    IF st.result # "running" THEN st
    ELSE IF ok THEN [Begin(st, step) EXCEPT !.written = Append(@, entry)]
    ELSE Begin(st, step)

\* fs::write(path, data).with_context(..)?
try_write(st, step, ok, entry) ==
    IF st.result # "running" THEN st
    ELSE IF ok THEN [Begin(st, step) EXCEPT !.written = Append(@, entry)]
    ELSE Bail(Begin(st, step))

\* Lines 218-222.
extension(esm) == IF esm THEN <<"mjs">> ELSE <<"js">>

\* Line 233.
wasm_path(stem) == with_extension(stem \o <<"_bg">>, <<"wasm">>)

\* Lines 223-225.  The text is that of js::Context, reset_indentation
\* applied; the model keeps no text for it.
step_write_js(st, esm, ok) ==
    try_write(st, "write_js", ok,
              [path |-> with_extension(st.stem, extension(esm)),
               what |-> "js", data |-> <<>>])

\* Lines 227-231.
step_write_ts(st, ts, ok) ==
    IF ts
    THEN try_write(st, "write_ts", ok,
                   [path |-> with_extension(st.stem, <<"d", ".", "ts">>),
                    what |-> "ts", data |-> <<>>])
    ELSE st

\* Lines 235-240.
step_write_shim(st, node, esm, ok) ==
    IF node
    THEN try_write(st, "write_shim", ok,
                   [path |-> with_extension(wasm_path(st.stem), extension(esm)),
                    what |-> "shim",
                    data |-> generate_node_wasm_import(esm, st.module,
                                                       wasm_path(st.stem))])
    ELSE st

\* Lines 242-245: serialize, then write; either may fail.
step_write_wasm(st, serialize_ok, ok) ==
    try_write(st, "write_wasm", serialize_ok /\ ok,
              [path |-> wasm_path(st.stem), what |-> "wasm",
               data |-> st.module])

Finish(st) == IF st.result = "running" THEN [st EXCEPT !.result = "ok"] ELSE st

\* _generate, with what the file system, the js module and the serializer
\* answer: read for fs::read, fail_at the step that fails, if any.
generate_run(inp, node, esm, ts, read, fail_at) ==
    LET st1 == step_extract(resolve_input(inp, read))
        st2 == step_bindings(step_interpreter(st1), fail_at # "bindings")
        st3 == step_write_js(st2, esm, fail_at # "write_js")
        st4 == step_write_ts(st3, ts, fail_at # "write_ts")
        st5 == step_write_shim(st4, node, esm, fail_at # "write_shim")
    IN  Finish(step_write_wasm(st5, fail_at # "serialize",
                               fail_at # "write_wasm"))

FailPoints == {"none", "bindings", "write_js", "write_ts", "write_shim",
               "serialize", "write_wasm"}

\* Names and modules of the model.
Names == {<<"a">>, <<"a", ".", "b">>}

FileNames == {n \o <<".", "wasm">> : n \in Names}

\* The modules generate is given: one metadata section of at most one
\* record, whole or broken; one of two records; two metadata sections around
\* an import section; and a module with no metadata.
TwoRecordBodies == {<<SCHEMA_VERSION, 1>>, <<SCHEMA_VERSION + 1, 0>>, <<0, 0>>}

SectionPayloads ==
    {<<>>, Record(<<SCHEMA_VERSION, 1>>), Record(<<SCHEMA_VERSION + 1, 1>>),
     <<2, 0>>}

MainModules ==
    {<<Custom(RESERVED, p)>> : p \in Payloads(1)}
    \cup {<<Custom(RESERVED, Record(x) \o Record(y))>> :
             x \in TwoRecordBodies, y \in TwoRecordBodies}
    \cup {<<Custom(RESERVED, p),
            Import(<<<<"e", "n", "v">>, <<"a">>, <<"e", "n", "v">>>>),
            Custom(RESERVED, q)>> :
             p \in SectionPayloads, q \in SectionPayloads}
    \cup {<<Import(<<<<"b">>>>), Code>>}

BytesPool == {NoBytes} \cup {Serialized(m) : m \in MainModules}

NoRead == [ok |-> FALSE, bytes |-> NoBytes]

\* What fs::read may find in the file of an Input::Path: no readable file,
\* bytes that are no module, or one of a few modules.
FileModules ==
    {<<Custom(RESERVED, Record(<<SCHEMA_VERSION, 1>>))>>,
     <<Custom(RESERVED, Record(<<SCHEMA_VERSION + 1, 1>>))>>,
     <<Custom(RESERVED, le32(3) \o <<SCHEMA_VERSION, 1>>)>>,
     <<Custom(RESERVED, Record(<<SCHEMA_VERSION, 1>>)),
       Import(<<<<"e", "n", "v">>, <<"a">>, <<"e", "n", "v">>>>),
       Custom(RESERVED, Record(<<SCHEMA_VERSION, 1>>))>>}

ReadResults ==
    {NoRead, [ok |-> TRUE, bytes |-> NoBytes]}
    \cup {[ok |-> TRUE, bytes |-> Serialized(m)] : m \in FileModules}

NoModule == [some |-> FALSE, module |-> <<>>]

\* No call of generate is the most recent call.
RunIdle ==
    [result |-> "none", stage |-> "none", log |-> <<>>, written |-> <<>>,
     stem |-> <<>>, resolved |-> NoModule, before |-> InputNone,
     prior |-> NoModule, calls |-> 0]

\* Bindgen::new (lines 49-63)
\*
\* The model follows a Bindgen from new through its builder calls to its
\* calls of generate.  A builder call overwrites its field whatever went
\* before, so that the builder calls before the first generate reach every
\* input under every configuration; builder calls after a generate are not
\* followed.
Init ==
    /\ input = InputNone
    /\ nodejs = FALSE
    /\ nodejs_experimental_modules = FALSE
    /\ typescript = FALSE
    /\ run = RunIdle
    /\ ex = ExIdle
    /\ fmt = FmtIdle
    /\ sh = ShIdle

\* input_path (lines 65-68)
input_path ==
    /\ \E f \in FileNames : input' = InputPath(f)
    /\ run.result = "none"
    /\ UNCHANGED run
    /\ UNCHANGED <<nodejs, nodejs_experimental_modules, typescript, ex, fmt, sh>>

\* input_module (lines 83-98): a parity_wasm Module is taken as it is,
\* anything else goes through into_bytes.
input_module ==
    /\ \E name \in Names :
          \/ \E m \in MainModules : input' = InputModule(m, name)
          \/ \E b \in BytesPool : input' = InputBytes(b, name)
    /\ run.result = "none"
    /\ UNCHANGED run
    /\ UNCHANGED <<nodejs, nodejs_experimental_modules, typescript, ex, fmt, sh>>

\* nodejs (lines 100-103)
set_nodejs ==
    /\ \E node \in BOOLEAN : nodejs' = node
    /\ run.result = "none"
    /\ UNCHANGED run
    /\ UNCHANGED <<input, nodejs_experimental_modules, typescript, ex, fmt, sh>>

\* nodejs_experimental_modules (lines 105-108)
set_nodejs_experimental_modules ==
    /\ \E node \in BOOLEAN : nodejs_experimental_modules' = node
    /\ run.result = "none"
    /\ UNCHANGED run
    /\ UNCHANGED <<input, nodejs, typescript, ex, fmt, sh>>

\* typescript (lines 130-133)
set_typescript ==
    /\ \E b \in BOOLEAN : typescript' = b
    /\ run.result = "none"
    /\ UNCHANGED run
    /\ UNCHANGED <<input, nodejs, nodejs_experimental_modules, ex, fmt, sh>>

\* generate (lines 145-246)
generate ==
    /\ run.calls < MaxGenerate
    /\ \E read \in (IF input.tag = "Path" THEN ReadResults ELSE {NoRead}),
          fail_at \in FailPoints :
          LET st == generate_run(input, nodejs, nodejs_experimental_modules,
                                 typescript, read, fail_at)
              first == resolve_input(input, read)
          IN  run' = [result |-> st.result, stage |-> st.stage, log |-> st.log,
                      written |-> st.written, stem |-> st.stem,
                      resolved |-> [some |-> first.resolved,
                                    module |-> first.module],
                      before |-> input,
                      prior |-> run.resolved,
                      calls |-> run.calls + 1]
    /\ input' = input_after(input)
    /\ UNCHANGED <<nodejs, nodejs_experimental_modules, typescript, ex, fmt, sh>>

Next ==
    \/ input_path
    \/ input_module
    \/ set_nodejs
    \/ set_nodejs_experimental_modules
    \/ set_typescript
    \/ generate

Spec == Init /\ [][Next]_vars

\* One call of extract_programs on a module of ExtractInputs.
InitExtract ==
    /\ InitEx
    /\ input = InputNone
    /\ nodejs = FALSE
    /\ nodejs_experimental_modules = FALSE
    /\ typescript = FALSE
    /\ run = RunIdle
    /\ fmt = FmtIdle
    /\ sh = ShIdle

SpecExtract == InitExtract /\ [][Extract]_vars

\* reset_indentation on a text of Texts, and again on what it returned.
InitFormat ==
    /\ InitFmt
    /\ input = InputNone
    /\ nodejs = FALSE
    /\ nodejs_experimental_modules = FALSE
    /\ typescript = FALSE
    /\ run = RunIdle
    /\ ex = ExIdle
    /\ sh = ShIdle

NextFormat == Format \/ Reformat

SpecFormat == InitFormat /\ [][NextFormat]_vars

\* generate_node_wasm_import on two modules, under one configuration.
InitShim ==
    /\ InitSh
    /\ input = InputNone
    /\ nodejs = FALSE
    /\ nodejs_experimental_modules = FALSE
    /\ typescript = FALSE
    /\ run = RunIdle
    /\ ex = ExIdle
    /\ fmt = FmtIdle

SpecShim == InitShim /\ [][BuildShims]_vars

(***************************************************************************)
(* Properties of extract_programs, under SpecExtract.                      *)
(***************************************************************************)
IsReserved(s) == s.kind = "Custom" /\ s.name = RESERVED

\* The length a record declares in its first four bytes.
PrefixValue(payload) ==
    payload[1] + 256 * (payload[2] + 256 * (payload[3] + 256 * payload[4]))

\* The payload, read record by record, comes to a record whose length
\* prefix is cut short or declares more bytes than follow it.
RECURSIVE Overlong(_)
Overlong(payload) ==
    IF payload = <<>> THEN FALSE
    ELSE IF Len(payload) < 4 THEN TRUE
    ELSE IF PrefixValue(payload) > Len(payload) - 4 THEN TRUE
    ELSE Overlong(SubSeq(payload, 5 + PrefixValue(payload), Len(payload)))

HasOverlongRecord(m) ==
    \E i \in 1..Len(m) : IsReserved(m[i]) /\ Overlong(m[i].payload)

\* C1: for a module with a reserved metadata section in which a record
\* declares more bytes than remain after its length prefix (a payload of 1
\* to 3 bytes included), extract_programs returns an error: it does not
\* panic.
C1_OverlongRecordIsAnError ==
    (ex.pc = "done" /\ HasOverlongRecord(ex.module)) => ex.out.status = "err"

NotReserved(s) == ~IsReserved(s)

\* C3: after a successful extract_programs the module's section list holds
\* no section named __wasm_bindgen_unstable and is the original list with
\* those sections filtered out: every other section once, in its original
\* relative order.
C3_ReservedSectionsStripped ==
    (ex.pc = "done" /\ ex.out.status = "ok") =>
        /\ \A i \in 1..Len(ex.out.sections) : ~IsReserved(ex.out.sections[i])
        /\ ex.out.sections = SelectSeq(ex.module, NotReserved)

\* C3, its case: a successful call on a module with another section between
\* two reserved ones, and one after them.
C3_Witness ==
    /\ ex.pc = "done"
    /\ ex.out.status = "ok"
    /\ Len(ex.module) = 3
    /\ IsReserved(ex.module[1])
    /\ ~IsReserved(ex.module[2])
    /\ IsReserved(ex.module[3])
    /\ ex.out.sections = <<ex.module[2]>>

(***************************************************************************)
(* Properties of generate, under Spec.                                     *)
(***************************************************************************)
\* The payload, read record by record, comes to a record that carries a
\* schema version other than SCHEMA_VERSION (a body whose first byte is 0
\* carries none).
RECURSIVE HasOtherVersion(_)
HasOtherVersion(payload) ==
    IF Len(payload) < 4 \/ PrefixValue(payload) > Len(payload) - 4
    THEN FALSE
    ELSE LET n == PrefixValue(payload)
         IN  \/ n > 0 /\ payload[5] \notin {0, SCHEMA_VERSION}
             \/ HasOtherVersion(SubSeq(payload, 5 + n, Len(payload)))

HasVersionSkew(m) ==
    \E i \in 1..Len(m) : IsReserved(m[i]) /\ HasOtherVersion(m[i].payload)

\* C2: if a record of a reserved metadata section of the resolved module
\* carries a schema version other than the compiled-in one, generate fails
\* (it returns an error, or unwinds with a panic of an earlier record), and
\* it does so before the interpreter is constructed and before any binding
\* is generated, whatever else the record holds and whatever records
\* precede or follow it.
C2_VersionGateBeforeInterpreter ==
    (run.result # "none" /\ run.resolved.some
        /\ HasVersionSkew(run.resolved.module)) =>
        /\ run.result \in {"err", "panic"}
        /\ run.stage = "extract"
        /\ "interpreter" \notin Range(run.log)
        /\ "bindings" \notin Range(run.log)

\* C2, its case: generate returned an error on a module whose first metadata
\* section decodes and whose second holds a record of another version.
C2_Witness ==
    /\ run.result = "err"
    /\ run.resolved.some
    /\ Len(run.resolved.module) = 3
    /\ ~HasOtherVersion(run.resolved.module[1].payload)
    /\ run.resolved.module[1].payload # <<>>
    /\ HasOtherVersion(run.resolved.module[3].payload)

\* The files the outputs are named after, for the stem S.
ExpectedFiles(S, node, esm, ts) ==
    {S \o <<".">> \o (IF esm THEN <<"mjs">> ELSE <<"js">>),
     S \o <<"_bg", ".", "wasm">>}
    \cup (IF ts THEN {S \o <<".", "d", ".", "ts">>} ELSE {})
    \cup (IF node
          THEN {S \o <<"_bg", ".">> \o (IF esm THEN <<"mjs">> ELSE <<"js">>)}
          ELSE {})

PathsWritten == {run.written[i].path : i \in 1..Len(run.written)}

\* C4: after a successful generate with output stem S the files written are
\* exactly S.<ext> and S_bg.wasm, S.d.ts if and only if typescript is set,
\* and S_bg.<ext> if and only if nodejs is set, <ext> being mjs if
\* nodejs_experimental_modules is set and js otherwise.
C4_FilesWritten ==
    run.result = "ok" =>
        PathsWritten = ExpectedFiles(run.stem, nodejs,
                                     nodejs_experimental_modules, typescript)

\* The steps of a run under the configuration, in their order.
StepOrder ==
    <<"input", "extract", "interpreter", "bindings", "write_js", "write_ts",
      "write_shim", "write_wasm">>

StepEnabled(step) ==
    /\ step = "write_ts" => typescript
    /\ step = "write_shim" => nodejs

IsWrite(step) ==
    step \in {"write_js", "write_ts", "write_shim", "write_wasm"}

StepOfFile(what) ==
    CASE what = "js" -> "write_js"
      [] what = "ts" -> "write_ts"
      [] what = "shim" -> "write_shim"
      [] what = "wasm" -> "write_wasm"

StepsWritten == [i \in 1..Len(run.written) |-> StepOfFile(run.written[i].what)]

C10_ResolvedInputIsConsumed ==
    (run.result # "none" /\ run.resolved.some) => input # run.before

\* C10 as amended: generate replaces the module of a stored Input::Module
\* by a blank module and keeps its name, so that a later call on the same
\* Bindgen processes a blank module; it leaves a stored path or stored
\* bytes as they are, so that a later call processes the same bytes again.
C10_OnlyModuleInputIsConsumed ==
    run.result # "none" =>
        /\ run.before.tag = "Module" =>
              input = InputModule(blank_module, run.before.name)
        /\ run.before.tag # "Module" => input = run.before
        /\ (run.calls >= 2 /\ run.before.tag = "Module") =>
              run.resolved = [some |-> TRUE, module |-> blank_module]
        /\ (run.calls >= 2 /\ run.before.tag = "Bytes") =>
              run.resolved = run.prior

\* C10, its case: a second call of generate on a Bindgen given a module
\* processed a blank module, the first having processed the module given.
C10_Witness ==
    /\ run.calls = 2
    /\ run.before.tag = "Module"
    /\ run.prior.some
    /\ run.prior.module # blank_module
    /\ run.resolved.module = blank_module
    /\ input.module = blank_module

(***************************************************************************)
(* Properties of generate_node_wasm_import, under SpecShim.                *)
(***************************************************************************)
ImportEntries(m) == IF m # <<>> /\ m[1].kind = "Import" THEN m[1].entries ELSE <<>>

ExportEntries(m) ==
    IF m # <<>> /\ m[Len(m)].kind = "Export" THEN m[Len(m)].entries ELSE <<>>

\* The lines of a shim that fill the imports table, in their order.
IsImportsLine(l) == l # <<>> /\ l[1] = "imports['"

ImportsLines(out) == SelectSeq(lines(out), IsImportsLine)

\* The name such a line is about: what stands between imports[' and '].
NameOfLine(l) ==
    SubSeq(l, 2, Min({i \in 1..Len(l) :
                         l[i] \in {"'] = require('", "'] = import"}}) - 1)

\* The alphabet's order on the names of the model.
Alphabetical ==
    <<"a">> :> 1 @@ <<"b">> :> 2 @@ <<"e", "n", "v">> :> 3

\* Each name of the module's import section once, in ascending order.
NamesOnceAscending(out, m) ==
    LET ls == ImportsLines(out)
    IN  /\ {NameOfLine(ls[i]) : i \in 1..Len(ls)} = Range(ImportEntries(m))
        /\ \A i \in 1..Len(ls), j \in 1..Len(ls) :
              i < j => Alphabetical[NameOfLine(ls[i])]
                         < Alphabetical[NameOfLine(ls[j])]

\* C6 as stated: two modules whose import sections list the same set of
\* module names, in any order and with any repetitions, get the same shim
\* text under the same configuration and binary path, with each name once,
\* in ascending alphabetical order.
C6_SameNamesSameShim ==
    sh.pc = "done" =>
        /\ sh.out1 = sh.out2
        /\ NamesOnceAscending(sh.out1, sh.m1)
        /\ NamesOnceAscending(sh.out2, sh.m2)

\* C6 as amended: the two shims name each import module once, in ascending
\* alphabetical order, and are the same text when the shim is the classic
\* one, or when the two modules' export sections list the same exports too
\* (the experimental shim re-exports each export of the module by name).
C6_SameNamesAndExportsSameShim ==
    sh.pc = "done" =>
        /\ (~sh.esm \/ ExportEntries(sh.m1) = ExportEntries(sh.m2)) =>
              sh.out1 = sh.out2
        /\ NamesOnceAscending(sh.out1, sh.m1)
        /\ NamesOnceAscending(sh.out2, sh.m2)
        /\ ImportsLines(sh.out1) = ImportsLines(sh.out2)

\* C6, its case: experimental shims of two modules that list the same
\* three names in different orders and export the same.
C6_Witness ==
    /\ sh.pc = "done"
    /\ sh.esm
    /\ ImportEntries(sh.m1) # ImportEntries(sh.m2)
    /\ Cardinality(Range(ImportEntries(sh.m1))) = 3
    /\ ExportEntries(sh.m1) = ExportEntries(sh.m2)
    /\ ExportEntries(sh.m1) # <<>>
    /\ sh.out1 = sh.out2

RequireLine(M) == <<"imports['">> \o M \o <<"'] = require('">> \o M \o <<"');">>

Count(ls, l) == Cardinality({i \in 1..Len(ls) : ls[i] = l})

\* C7: the classic shim of a module holds the line
\* imports['M'] = require('M'); once for each distinct import module name M
\* of the module and for no other name, and ends with
\* module.exports = wasmInstance.exports; for the one import module env
\* that is the one line imports['env'] = require('env');.
C7_ClassicShimRequiresEachImportOnce ==
    (sh.pc = "done" /\ ~sh.esm) =>
        LET ls == lines(sh.out1)
            names == Range(ImportEntries(sh.m1))
        IN  /\ \A M \in ImportNames :
                  Count(ls, RequireLine(M)) = IF M \in names THEN 1 ELSE 0
            /\ \A i \in 1..Len(ls) :
                  IsImportsLine(ls[i]) =>
                      \E M \in names : ls[i] = RequireLine(M)
            /\ ls[Len(ls)] = <<"module.exports = wasmInstance.exports;">>
            /\ sh.out1[Len(sh.out1)] = "\n"
            /\ ImportEntries(sh.m1) = <<<<"e", "n", "v">>>> =>
                  /\ Count(ls, <<"imports['", "e", "n", "v", "'] = require('",
                                 "e", "n", "v", "');">>) = 1
                  /\ Len(SelectSeq(ls, IsImportsLine)) = 1

\* C7, its case: the classic shim of a module that imports env twice and a
\* once.
C7_Witness ==
    /\ sh.pc = "done"
    /\ ~sh.esm
    /\ ImportEntries(sh.m1) = <<<<"e", "n", "v">>, <<"a">>, <<"e", "n", "v">>>>
    /\ Count(lines(sh.out1), RequireLine(<<"e", "n", "v">>)) = 1

(***************************************************************************)
(* Properties of reset_indentation, under SpecFormat.                      *)
(***************************************************************************)
\* C8: reset_indentation is idempotent on its own output:
\* reset_indentation(reset_indentation(s)) = reset_indentation(s).
C8_ResetIndentationIdempotent ==
    fmt.pc = "done" => fmt.twice = fmt.once

\* C8, its case: a text that reset_indentation changed by indenting a line,
\* formatted twice.
C8_Witness ==
    /\ fmt.pc = "done"
    /\ fmt.s = <<"a", " ", "{", "\n", " ", "b", " ">>
    /\ fmt.once # fmt.s
    /\ fmt.twice = fmt.once

\* The lines of a text, character by character: cur is the line so far.
RECURSIVE InputLines(_, _)
InputLines(s, cur) ==
    IF s = <<>> THEN (IF cur = <<>> THEN <<>> ELSE <<cur>>)
    ELSE IF Head(s) = "\n" THEN <<cur>> \o InputLines(Tail(s), <<>>)
    ELSE InputLines(Tail(s), Append(cur, Head(s)))

Blank(c) == c \in {" ", "\r", "\t", "\n"}

RECURSIVE Trimmed(_)
Trimmed(l) ==
    IF l = <<>> THEN l
    ELSE IF Blank(Head(l)) THEN Trimmed(Tail(l))
    ELSE IF Blank(l[Len(l)]) THEN Trimmed(SubSeq(l, 1, Len(l) - 1))
    ELSE l

Closing(t) ==
    t # <<>> /\ (t[1] = "}" \/ (t[Len(t)] = "}" /\ t[1] # "*"))

Opening(t) == t # <<>> /\ t[Len(t)] = "{"

Addendum(t) == IF t # <<>> /\ t[1] \in {":", "?"} THEN 1 ELSE 0

\* The indent the k-th line is emitted with: 0 at the start, one more after
\* a line that ends with an opening brace, one less, but never below 0,
\* before a closing line.
RECURSIVE IndentAt(_, _)
IndentAt(ts, k) ==
    LET before == IF k = 1 THEN 0
                  ELSE IndentAt(ts, k - 1)
                       + (IF Opening(ts[k - 1]) THEN 1 ELSE 0)
    IN  IF Closing(ts[k]) /\ before > 0 THEN before - 1 ELSE before

ExpectedLine(ts, k) ==
    IF ts[k] = <<>> THEN <<"\n">>
    ELSE [i \in 1..(4 * (IndentAt(ts, k) + Addendum(ts[k]))) |-> " "]
         \o ts[k] \o <<"\n">>

RECURSIVE ExpectedFrom(_, _)
ExpectedFrom(ts, k) ==
    IF k > Len(ts) THEN <<>> ELSE ExpectedLine(ts, k) \o ExpectedFrom(ts, k + 1)

\* C9: reset_indentation emits one line for each line of its input: the
\* trimmed line after 4 * (indent + addendum) spaces (none for an empty
\* line) and before a line break, indent and addendum as above; so a {, b, }
\* formats to a {, four spaces and b, }, each with its line break.
C9_ResetIndentationLines ==
    fmt.pc \in {"once", "done"} =>
        LET ls == InputLines(fmt.s, <<>>)
            ts == [k \in 1..Len(ls) |-> Trimmed(ls[k])]
        IN  /\ fmt.once = ExpectedFrom(ts, 1)
            /\ Cardinality({i \in 1..Len(fmt.once) : fmt.once[i] = "\n"})
                  = Len(ls)
            /\ fmt.s = <<"a", " ", "{", "\n", "b", "\n", "}">> =>
                  fmt.once = <<"a", " ", "{", "\n", " ", " ", " ", " ", "b",
                               "\n", "}", "\n">>

\* C9, its case: the text a {, b, } formatted.
C9_Witness ==
    /\ fmt.pc = "once"
    /\ fmt.s = <<"a", " ", "{", "\n", "b", "\n", "}">>
    /\ fmt.once = <<"a", " ", "{", "\n", " ", " ", " ", " ", "b", "\n", "}",
                    "\n">>

====
